---- MODULE Spec2Model ----
(***************************************************************************)
(* Model of the Snowflake ID generator of src/index.ts.                    *)
(*                                                                         *)
(* The generator works on JavaScript bigint values (epoch, lastTimestamp,  *)
(* the ID) and on Number values (nodeId, sequence, the decoded fields).    *)
(* A bigint is modelled as a little-endian sequence of NumLimbs limbs in   *)
(* base 2^15, read in two's complement, which is what <<, >>, & and | of   *)
(* a bigint act on; every value of the model stays far inside the width.   *)
(***************************************************************************)
EXTENDS Integers, Sequences, FiniteSets, TLC

(***************************************************************************)
(* bigint arithmetic                                                       *)
(***************************************************************************)
\* number of limbs of a modelled bigint (90 bits with 6 limbs)
NumLimbs == 6

Base == 2^15

LimbIdx == 1..NumLimbs

RECURSIVE LimbsFrom(_, _)
LimbsFrom(f, i) ==
  IF i > NumLimbs THEN <<>> ELSE <<f[i]>> \o LimbsFrom(f, i + 1)

\* the bigint whose i-th limb is f[i]
Limbs(f) == LimbsFrom(f, 1)

\* the element of a one-element set; Only({e(x) : x \in {a}}) is e(a) with
\* a evaluated once
Only(S) == CHOOSE x \in S : TRUE

BigZero == Limbs([i \in LimbIdx |-> 0])

IsNeg(a) == a[NumLimbs] >= Base \div 2

\* BigInt(n) for a Number n that fits a machine integer of the model checker
BigInt(n) ==
  Limbs([i \in LimbIdx |-> IF i <= 3 THEN (n \div (Base^(i-1))) % Base
                    ELSE IF n < 0 THEN Base - 1 ELSE 0])

RECURSIVE AddFrom(_, _, _, _)
AddFrom(a, b, i, carry) ==
  IF i > NumLimbs THEN <<>>
  ELSE LET s == a[i] + b[i] + carry
       IN  <<s % Base>> \o AddFrom(a, b, i + 1, s \div Base)

\* a + b
BigAdd(a, b) == Only({AddFrom(x, y, 1, 0) : x \in {a}, y \in {b}})

\* -a
BigNeg(a) ==
  Only({BigAdd(Limbs([i \in LimbIdx |-> Base - 1 - x[i]]), BigInt(1)) : x \in {a}})

\* a - b
BigSub(a, b) == BigAdd(a, BigNeg(b))

RECURSIVE LessFrom(_, _, _)
LessFrom(a, b, i) ==
  IF i = 0 THEN FALSE
  ELSE IF a[i] # b[i] THEN a[i] < b[i]
  ELSE LessFrom(a, b, i - 1)

\* a < b
BigLess(a, b) ==
  \E x \in {a}, y \in {b} :
    IF IsNeg(x) # IsNeg(y) THEN IsNeg(x) ELSE LessFrom(x, y, NumLimbs)

\* a <= b
BigLeq(a, b) == \E x \in {a}, y \in {b} : x = y \/ BigLess(x, y)

Limb(a, i) ==
  IF i < 1 THEN 0
  ELSE IF i > NumLimbs THEN (IF IsNeg(a) THEN Base - 1 ELSE 0)
  ELSE a[i]

\* a << n
BigShl(a, n) ==
  LET q == n \div 15
      r == n % 15
  IN  Only({Limbs([i \in LimbIdx |->
                  ((Limb(x, i - q) * 2^r) % Base)
                  + ((Limb(x, i - q - 1) * 2^r) \div Base)]) : x \in {a}})

\* a >> n (arithmetic: the sign is kept)
BigShr(a, n) ==
  LET q == n \div 15
      r == n % 15
  IN  Only({Limbs([i \in LimbIdx |->
                  (Limb(x, i + q) \div 2^r)
                  + ((Limb(x, i + q + 1) * 2^(15 - r)) % Base)]) : x \in {a}})

RECURSIVE LimbAnd(_, _, _)
LimbAnd(x, y, k) ==
  IF k = 0 THEN 0
  ELSE (x % 2) * (y % 2) + 2 * LimbAnd(x \div 2, y \div 2, k - 1)

RECURSIVE LimbOr(_, _, _)
LimbOr(x, y, k) ==
  IF k = 0 THEN 0
  ELSE (IF x % 2 = 1 \/ y % 2 = 1 THEN 1 ELSE 0)
       + 2 * LimbOr(x \div 2, y \div 2, k - 1)

\* a & b
BigAnd(a, b) ==
  Only({Limbs([i \in LimbIdx |-> LimbAnd(x[i], y[i], 15)]) : x \in {a}, y \in {b}})

\* a | b
BigOr(a, b) ==
  Only({Limbs([i \in LimbIdx |-> LimbOr(x[i], y[i], 15)]) : x \in {a}, y \in {b}})

RECURSIVE DecFrom(_, _, _)
DecFrom(digits, i, acc) ==
  IF i > Len(digits) \/ IsNeg(acc) THEN acc
  ELSE DecFrom(digits, i + 1,
               BigAdd(BigAdd(BigShl(acc, 3), BigShl(acc, 1)), BigInt(digits[i])))

\* the non-negative bigint written with the given decimal digits
Dec(digits) == DecFrom(digits, 1, BigZero)

\* 2^n as a bigint
Pow2(n) == BigShl(BigInt(1), n)

\* Number(a) for a bigint a of at most 30 bits
ToSmall(a) == IF IsNeg(a) THEN 0 - (BigNeg(a)[1] + BigNeg(a)[2] * Base)
              ELSE a[1] + a[2] * Base

RECURSIVE BitLenFrom(_, _)
BitLenFrom(m, n) ==
  IF n = 0 \/ BigLeq(Pow2(n - 1), m) THEN n ELSE BitLenFrom(m, n - 1)

\* number of significant bits of a non-negative bigint
BitLen(m) == BitLenFrom(m, 15 * NumLimbs - 2)

\* the IEEE-754 double nearest to the integer m >= 0 (53-bit significand,
\* ties to even), as an integer
RoundDouble(m) ==
  LET d == BitLen(m) - 53
  IN  IF d <= 0 THEN m
      ELSE LET q    == BigShr(m, d)
               rem  == BigSub(m, BigShl(q, d))
               half == Pow2(d - 1)
               up   == BigLess(half, rem) \/ (rem = half /\ q[1] % 2 = 1)
           IN  BigShl(IF up THEN BigAdd(q, BigInt(1)) ELSE q, d)

\* Number(a) for a bigint a of any size
ToNumber(a) == IF IsNeg(a) THEN BigNeg(RoundDouble(BigNeg(a))) ELSE RoundDouble(a)

\* x + y on Numbers holding integers (one rounding of the exact sum)
NumberAdd(x, y) == ToNumber(BigAdd(x, y))

\* x & y on Numbers in 0..2^15-1
NumberAnd(x, y) == LimbAnd(x, y, 15)

(***************************************************************************)
(* Program constants                                                       *)
(***************************************************************************)
\* default of the constructor's epoch parameter
DefaultEpoch == Dec(<<1,2,8,8,8,3,4,9,7,4,6,5,7>>)

\* largest node id override the constructor accepts
MaxNodeId == 1023

\* 0xfff, the mask of the sequence increment and of the decoded sequence
SeqMask == 4095

\* 0x3ffn, the mask of the decoded node id
NodeMask == 1023

\* 0x1ffffffffffn, the mask of the decoded timestamp (41 bits)
TimestampMask == Dec(<<2,1,9,9,0,2,3,2,5,5,5,5,1>>)

\* 22n, the shift of the timestamp field
TimestampShift == 22

\* 12n, the shift of the node id field
NodeShift == 12

\* the modulus that reduces a MAC address to a node id
MacModulus == 1024

\* lastTimestamp of a new instance
NoTimestamp == BigInt(-1)

\* the MAC address computeNodeId skips
ZeroMac == <<0, 0, 0, 0, 0, 0>>

(***************************************************************************)
(* Pure functions of the program                                           *)
(***************************************************************************)
\* PackId without the node id field
PackIdWithoutNode(timestampSinceEpoch, node, seq) ==
  BigOr(BigShl(timestampSinceEpoch, TimestampShift), BigInt(seq))

\* the ID generate() builds from its three fields
PackId(timestampSinceEpoch, node, seq) ==
  BigOr(BigOr(BigShl(timestampSinceEpoch, TimestampShift),
              BigShl(BigInt(node), NodeShift)),
        BigInt(seq))

\* decode with a node id mask of 9 bits
decodeNarrowNode(ep, snowflakeId) ==
  [timestamp |-> NumberAdd(ToNumber(BigAnd(BigShr(snowflakeId, TimestampShift),
                                           TimestampMask)),
                           ToNumber(ep)),
   nodeId    |-> ToSmall(BigAnd(BigShr(snowflakeId, NodeShift), BigInt(511))),
   sequence  |-> ToSmall(BigAnd(snowflakeId, BigInt(SeqMask)))]

\* decode without the mask of the timestamp
decodeUnmasked(ep, snowflakeId) ==
  [timestamp |-> NumberAdd(ToNumber(BigShr(snowflakeId, TimestampShift)),
                           ToNumber(ep)),
   nodeId    |-> ToSmall(BigAnd(BigShr(snowflakeId, NodeShift), BigInt(NodeMask))),
   sequence  |-> ToSmall(BigAnd(snowflakeId, BigInt(SeqMask)))]

\* decode(snowflakeId) on an instance whose epoch is ep
decode(ep, snowflakeId) ==
  [timestamp |-> NumberAdd(ToNumber(BigAnd(BigShr(snowflakeId, TimestampShift),
                                           TimestampMask)),
                           ToNumber(ep)),
   nodeId    |-> ToSmall(BigAnd(BigShr(snowflakeId, NodeShift), BigInt(NodeMask))),
   sequence  |-> ToSmall(BigAnd(snowflakeId, BigInt(SeqMask)))]

RECURSIVE ParseHexFrom(_, _, _)
ParseHexFrom(mac, i, acc) ==
  IF i > Len(mac) THEN acc
  ELSE ParseHexFrom(mac, i + 1, BigAdd(BigShl(acc, 8), BigInt(mac[i])))

\* parseInt(mac.split(":").join(""), 16), mac given as its six octets
ParseMac(mac) == ParseHexFrom(mac, 1, BigZero)

\* the address taken as the node id without the reduction modulo m
NumberModUnreduced(x, m) == x[1]

\* x % m for a Number x >= 0 and a modulus m that divides 2^15
NumberMod(x, m) == x[1] % m

\* The interfaces computeNodeId keeps: an interface is a record
\* [defined, addrs], addrs the sequence of the MAC addresses of its entries.
KeptInterfaces(ifaces) ==
  SelectSeq(ifaces, LAMBDA i : i.defined /\ (Len(i.addrs) = 0 \/ i.addrs[1] # ZeroMac))

\* computeNodeId(): env is what networkInterfaces() does (throw, or return the
\* interfaces), rnd the value of Math.floor(Math.random() * 1024)
computeNodeId(env, rnd) ==
  IF env.throws THEN rnd
  ELSE LET kept == KeptInterfaces(env.ifaces)
       IN  IF Len(kept) = 0 \/ Len(kept[1].addrs) = 0 THEN rnd
           ELSE NumberMod(ParseMac(kept[1].addrs[1]), MacModulus)

\* the epoch parameter, <<>> when the caller gives none
EpochParam(epochArg) == IF epochArg = <<>> THEN DefaultEpoch ELSE epochArg[1]

\* the override is rejected from 1023 on
OverrideRejectedAtMax(override) == override # <<>> /\ override[1] >= MaxNodeId

\* the override is rejected
OverrideRejected(override) == override # <<>> /\ override[1] > MaxNodeId

\* new Snowflake({epoch, nodeIdOverride}): threw tells whether the
\* constructor threw, obj is the instance otherwise
Constructor(epochArg, override, env, rnd) ==
  LET computed == computeNodeId(env, rnd)
  IN  [threw |-> OverrideRejected(override),
       obj   |-> [epoch         |-> EpochParam(epochArg),
                  sequence      |-> 0,
                  nodeId        |-> IF override # <<>> THEN override[1] ELSE computed,
                  lastTimestamp |-> NoTimestamp]]

\* getNodeId()
getNodeId(obj) == obj.nodeId

(***************************************************************************)
(* Bounds and inputs                                                       *)
(***************************************************************************)
\* the clock moves inside ClockBase .. ClockBase + MaxTick
MaxTick == 2

\* an instance returns at most MaxIssued IDs in a run
MaxIssued == 2

\* an instance returns at most MaxFairIssued IDs in a run of SpecFair
MaxFairIssued == 1

\* two instances return at most MaxPairIssued IDs in a run
MaxPairIssued == 2

Instances == {1, 2}

\* Date.now() at the start of the window
ClockBase == Dec(<<1,7,3,9,1,9,4,4,7,9,2,5,6>>)

ClockMax == BigAdd(ClockBase, BigInt(MaxTick))

RECURSIVE ClockFrom(_)
ClockFrom(k) ==
  IF k < 0 THEN {} ELSE {BigAdd(ClockBase, BigInt(k))} \cup ClockFrom(k - 1)

ClockValues == ClockFrom(MaxTick)

\* epochs given to the constructor: none (the default), one two milliseconds
\* after the start of the clock window, one 2^41 - 1 milliseconds before it
EpochArgs ==
  {<<>>,
   <<BigAdd(ClockBase, BigInt(2))>>,
   <<BigSub(BigAdd(ClockBase, BigInt(1)), Pow2(41))>>}

\* node id overrides of the instances that generate
Overrides == {<<>>, <<-1>>, <<1023>>}

Lo == [defined |-> TRUE, addrs |-> <<ZeroMac>>]

Eth == [defined |-> TRUE, addrs |-> <<(<<2, 66, 172, 17, 1, 104>>)>>]

Tun == [defined |-> TRUE, addrs |-> <<>>]

Veth == [defined |-> TRUE, addrs |-> <<ZeroMac, (<<2, 66, 172, 17, 3, 255>>)>>]

Gone == [defined |-> FALSE, addrs |-> <<>>]

Wlan == [defined |-> TRUE, addrs |-> <<(<<2, 66, 172, 17, 7, 255>>)>>]

\* what networkInterfaces() does
NetEnvs ==
  {[throws |-> TRUE,  ifaces |-> <<>>],
   [throws |-> FALSE, ifaces |-> <<>>],
   [throws |-> FALSE, ifaces |-> <<Lo>>],
   [throws |-> FALSE, ifaces |-> <<Lo, Eth>>],
   [throws |-> FALSE, ifaces |-> <<Gone, Eth>>],
   [throws |-> FALSE, ifaces |-> <<Tun, Eth>>],
   [throws |-> FALSE, ifaces |-> <<Veth>>],
   [throws |-> FALSE, ifaces |-> <<Wlan, Eth>>]}

\* values of Math.floor(Math.random() * 1024)
RandomDraws == {0, 1023}

\* numbers of IDs an instance has already returned, all in the current
\* millisecond, when a run starts
WarmBursts == {0, 4095, 4096}

Callers == {"main", "racer"}

(***************************************************************************)
(* State                                                                   *)
(***************************************************************************)
VARIABLES
  clock,          \* Date.now()
  live,           \* live[i]: instance i has been constructed
  epoch,          \* epoch[i], a bigint
  nodeId,         \* nodeId[i], a Number
  sequence,       \* sequence[i], a Number
  lastTimestamp,  \* lastTimestamp[i], a bigint
  call,           \* call[c]: the generate() call of caller c: its position,
                  \* its instance, its local now (until it returns), the
                  \* branch it took at lines 85-100 ("reject", "increment",
                  \* "overflow" or "reset"), and how it ended
  issued,         \* issued[i]: the IDs instance i returned in the run, in order
  burst,          \* burst[i]: the IDs instance i returned before the run:
                  \* PackId(ts, nodeId[i], k) for k in 0..n-1
  regressed,      \* the clock has moved backwards
  threw,          \* threw[i]: the last finished generate() of i threw
  ctor,           \* the last constructor call: its arguments and outcome
  codec           \* the last request to pack and decode, with its results

vars == <<clock, live, epoch, nodeId, sequence, lastTimestamp, call, issued,
          burst, regressed, threw, ctor, codec>>

instVars == <<live, epoch, nodeId, sequence, lastTimestamp>>

NoObj == [epoch |-> BigZero, sequence |-> 0, nodeId |-> 0,
          lastTimestamp |-> NoTimestamp]

IdleCall == [pc |-> "idle", inst |-> 1, now |-> BigZero, result |-> "none",
             ret |-> BigZero, afterThrow |-> FALSE, branch |-> "none",
             raced |-> FALSE]

NoCtor == [called |-> FALSE, inst |-> 1, override |-> <<>>, computed |-> 0,
          threw |-> FALSE, env |-> [throws |-> TRUE, ifaces |-> <<>>],
          rnd |-> 0]

NoCodec == [kind |-> "none", elapsed |-> BigZero, node |-> 0, seq |-> 0,
            id |-> <<>>, out |-> <<>>]

\* now - this.epoch, on instance i
Elapsed(i, now) == BigSub(now, epoch[i])

\* the instances obj (absent when has is FALSE), n IDs into the millisecond
\* of the clock value c
Warmed(obj, n, c) ==
  IF n = 0 THEN obj
  ELSE [obj EXCEPT !.sequence = n - 1, !.lastTimestamp = BigSub(c, obj.epoch)]

\* the state in which the instances are objs (has[i] tells which exist),
\* instance i having returned warm[i] IDs in the millisecond of clock c
InitWith(c, has, objs, warm) ==
  /\ clock = c
  /\ live = has
  /\ epoch = [i \in Instances |-> Warmed(objs[i], warm[i], c).epoch]
  /\ nodeId = [i \in Instances |-> Warmed(objs[i], warm[i], c).nodeId]
  /\ sequence = [i \in Instances |-> Warmed(objs[i], warm[i], c).sequence]
  /\ lastTimestamp =
       [i \in Instances |-> Warmed(objs[i], warm[i], c).lastTimestamp]
  /\ call = [c2 \in Callers |-> IdleCall]
  /\ issued = [i \in Instances |-> <<>>]
  /\ burst = [i \in Instances |->
                [ts |-> BigSub(c, objs[i].epoch), n |-> warm[i]]]
  /\ regressed = FALSE
  /\ threw = [i \in Instances |-> FALSE]
  /\ ctor = NoCtor
  /\ codec = NoCodec

\* a warm start needs a millisecond in which IDs can have been issued
CanWarm(obj, n, c) == n = 0 \/ ~IsNeg(BigSub(c, obj.epoch))

\* One instance, constructed and possibly used before, at any clock value of
\* the window.
Init ==
  \E c \in ClockValues, ea \in EpochArgs, ov \in Overrides, env \in NetEnvs,
     rnd \in RandomDraws, n \in WarmBursts :
    LET r == Constructor(ea, ov, env, rnd)
    IN  /\ ~r.threw
        /\ CanWarm(r.obj, n, c)
        /\ InitWith(c, [i \in Instances |-> i = 1],
                    [i \in Instances |-> IF i = 1 THEN r.obj ELSE NoObj],
                    [i \in Instances |-> IF i = 1 THEN n ELSE 0])

(***************************************************************************)
(* The clock                                                               *)
(***************************************************************************)
\* the clock advances by a millisecond
Tick ==
  /\ BigLess(clock, ClockMax)
  /\ clock' = BigAdd(clock, BigInt(1))
  /\ UNCHANGED <<instVars, call, issued, burst, regressed, threw, ctor, codec>>

\* the clock is set back by a millisecond
Regress ==
  /\ BigLess(ClockBase, clock)
  /\ clock' = BigSub(clock, BigInt(1))
  /\ regressed' = TRUE
  /\ UNCHANGED <<instVars, call, issued, burst, threw, ctor, codec>>

(***************************************************************************)
(* generate()                                                              *)
(***************************************************************************)
\* the guard of line 85 missing a regression of one millisecond
ClockWentBackByTwo(i, now) ==
  BigLess(BigAdd(Elapsed(i, now), BigInt(1)), lastTimestamp[i])

\* line 85: now - this.epoch < this.lastTimestamp
ClockWentBack(i, now) == BigLess(Elapsed(i, now), lastTimestamp[i])

\* line 91: now - this.epoch === this.lastTimestamp
SameMillisecond(i, now) == Elapsed(i, now) = lastTimestamp[i]

\* line 92 stepping by two
NextSequenceByTwo(seq) == NumberAnd(seq + 2, SeqMask)

\* line 92 without the mask
NextSequenceUnmasked(seq) == seq + 1

\* line 92: (this.sequence + 1) & 0xfff
NextSequence(seq) == NumberAnd(seq + 1, SeqMask)

\* line 99 leaving the sequence seq as it was
ResetSequenceKept(seq) == seq

\* line 99: this.sequence = 0, whatever the sequence seq was
ResetSequence(seq) == 0

\* a loop whose condition never turns false
StillWaitingForever(i, now) == TRUE

\* line 96: BigInt(Date.now()) - this.epoch <= this.lastTimestamp
StillWaiting(i, now) == BigLeq(Elapsed(i, now), lastTimestamp[i])

\* a call of caller c starts while the call of another caller is in progress,
\* or after calls that did
Overlapped(c) ==
  \/ call[c].raced
  \/ \E d \in Callers \ {c} : call[d].pc # "idle" \/ call[d].raced

\* Lines 83-100: the first clock read, the regression guard and the update of
\* the sequence.  The call throws, or goes on to the overflow wait ("spin")
\* or to the second clock read ("stamp").
GenerateEnter(c, i) ==
  /\ call[c].pc = "idle"
  /\ live[i]
  /\ LET now     == clock
         entered == [pc |-> "stamp", inst |-> i, now |-> now,
                     result |-> "none", ret |-> BigZero,
                     afterThrow |-> threw[i], branch |-> "reset",
                     raced |-> Overlapped(c)]
     IN  IF ClockWentBack(i, now)
         THEN /\ call' = [call EXCEPT ![c] =
                            [entered EXCEPT !.pc = "idle", !.result = "error",
                                            !.branch = "reject"]]
              /\ threw' = [threw EXCEPT ![i] = TRUE]
              /\ UNCHANGED sequence
         ELSE IF SameMillisecond(i, now)
         THEN LET next == NextSequence(sequence[i])
              IN  /\ sequence' = [sequence EXCEPT ![i] = next]
                  /\ call' = [call EXCEPT ![c] =
                                IF next = 0
                                THEN [entered EXCEPT !.pc = "spin",
                                                     !.branch = "overflow"]
                                ELSE [entered EXCEPT !.branch = "increment"]]
                  /\ UNCHANGED threw
         ELSE /\ sequence' = [sequence EXCEPT ![i] = ResetSequence(@)]
              /\ call' = [call EXCEPT ![c] = entered]
              /\ UNCHANGED threw
  /\ UNCHANGED <<clock, live, epoch, nodeId, lastTimestamp, issued, burst,
                 regressed, ctor, codec>>

\* Line 96: one evaluation of the condition of the overflow wait.
GenerateSpin(c) ==
  /\ call[c].pc = "spin"
  /\ LET i == call[c].inst
     IN  call' = [call EXCEPT ![c].pc =
                    IF StillWaiting(i, clock) THEN "spin" ELSE "stamp"]
  /\ UNCHANGED <<clock, instVars, issued, burst, regressed, threw, ctor, codec>>

\* lines 102-110 storing the clock read in epoch instead of the elapsed time
\* in lastTimestamp
GenerateStampRebasing(c) ==
  /\ call[c].pc = "stamp"
  /\ LET i == call[c].inst
         timestampSinceEpoch == Elapsed(i, clock)
         id == PackId(timestampSinceEpoch, nodeId[i], sequence[i])
     IN  /\ epoch' = [epoch EXCEPT ![i] = clock]
         /\ call' = [call EXCEPT ![c].pc = "idle", ![c].result = "id",
                                 ![c].ret = id, ![c].now = BigZero]
         /\ issued' = [issued EXCEPT ![i] = Append(@, id)]
         /\ threw' = [threw EXCEPT ![i] = FALSE]
  /\ UNCHANGED <<clock, live, lastTimestamp, nodeId, sequence, burst, regressed,
                 ctor, codec>>

\* Lines 102-110: the second clock read, the update of lastTimestamp, the
\* packing and the return.
GenerateStamp(c) ==
  /\ call[c].pc = "stamp"
  /\ LET i == call[c].inst
         timestampSinceEpoch == Elapsed(i, clock)
         id == PackId(timestampSinceEpoch, nodeId[i], sequence[i])
     IN  /\ lastTimestamp' = [lastTimestamp EXCEPT ![i] = timestampSinceEpoch]
         /\ call' = [call EXCEPT ![c].pc = "idle", ![c].result = "id",
                                 ![c].ret = id, ![c].now = BigZero]
         /\ issued' = [issued EXCEPT ![i] = Append(@, id)]
         /\ threw' = [threw EXCEPT ![i] = FALSE]
  /\ UNCHANGED <<clock, live, epoch, nodeId, sequence, burst, regressed, ctor,
                 codec>>

\* generate() calls run one at a time, on the single thread of the program
Next ==
  \/ Tick
  \/ Regress
  \/ \E i \in Instances : Len(issued[i]) < MaxIssued /\ GenerateEnter("main", i)
  \/ GenerateSpin("main")
  \/ GenerateStamp("main")

Spec == Init /\ [][Next]_vars

\* One instance of node id 1023, of any of the epochs, possibly used before.
InitFair ==
  \E c \in ClockValues, ea \in EpochArgs, n \in WarmBursts :
    LET r == Constructor(ea, <<1023>>, [throws |-> TRUE, ifaces |-> <<>>], 0)
    IN  /\ CanWarm(r.obj, n, c)
        /\ InitWith(c, [i \in Instances |-> i = 1],
                    [i \in Instances |-> IF i = 1 THEN r.obj ELSE NoObj],
                    [i \in Instances |-> IF i = 1 THEN n ELSE 0])

NextFair ==
  \/ Tick
  \/ Regress
  \/ \E i \in Instances :
       Len(issued[i]) < MaxFairIssued /\ GenerateEnter("main", i)
  \/ GenerateSpin("main")
  \/ GenerateStamp("main")

\* The thread that runs generate() keeps running: a call in the loop of line
\* 96 evaluates its condition again, a call past the loop goes on to return.
\* Nothing is assumed of the clock.
SpecFair ==
  /\ InitFair
  /\ [][NextFair]_vars
  /\ WF_vars(GenerateSpin("main"))
  /\ WF_vars(GenerateStamp("main"))

(***************************************************************************)
(* The constructor                                                         *)
(***************************************************************************)
\* node id overrides given to the constructor
CtorOverrides ==
  {<<>>, <<-1024>>, <<-2>>, <<-1>>, <<0>>, <<1>>, <<42>>, <<1022>>, <<1023>>,
   <<1024>>, <<1025>>, <<2047>>}

\* instance i as an object
Obj(i) == [epoch |-> epoch[i], sequence |-> sequence[i], nodeId |-> nodeId[i],
           lastTimestamp |-> lastTimestamp[i]]

\* new Snowflake({epoch: epochArg, nodeIdOverride: override}), the result
\* being instance i when the constructor returns
Construct(i, epochArg, override, env, rnd) ==
  /\ ~live[i]
  /\ LET r == Constructor(epochArg, override, env, rnd)
     IN  /\ ctor' = [called |-> TRUE, inst |-> i, override |-> override,
                     computed |-> computeNodeId(env, rnd), threw |-> r.threw,
                     env |-> env, rnd |-> rnd]
         /\ IF r.threw
            THEN UNCHANGED instVars
            ELSE /\ live' = [live EXCEPT ![i] = TRUE]
                 /\ epoch' = [epoch EXCEPT ![i] = r.obj.epoch]
                 /\ nodeId' = [nodeId EXCEPT ![i] = r.obj.nodeId]
                 /\ sequence' = [sequence EXCEPT ![i] = r.obj.sequence]
                 /\ lastTimestamp' =
                      [lastTimestamp EXCEPT ![i] = r.obj.lastTimestamp]
  /\ UNCHANGED <<clock, call, issued, burst, regressed, threw, codec>>

\* no instance yet
InitCtor ==
  InitWith(ClockBase, [i \in Instances |-> FALSE], [i \in Instances |-> NoObj],
           [i \in Instances |-> 0])

\* the constructor is called, again after a throw, until there is an instance
NextCtor ==
  \E i \in Instances, ea \in EpochArgs, ov \in CtorOverrides, env \in NetEnvs,
     rnd \in RandomDraws :
    /\ \A j \in Instances : ~live[j]
    /\ Construct(i, ea, ov, env, rnd)

SpecCtor == InitCtor /\ [][NextCtor]_vars

(***************************************************************************)
(* Packing and decoding                                                    *)
(***************************************************************************)
\* epochs of the instances that decode: the default, 0, that of the tests
\* (1609459200000) and the largest whose timestamps are all below 2^53
CodecEpochArgs ==
  {<<>>, <<BigZero>>, <<Dec(<<1,6,0,9,4,5,9,2,0,0,0,0,0>>)>>,
   <<BigSub(Pow2(53), Pow2(41))>>}

\* elapsed times to pack, in 0 .. 2^41 - 1
CodecElapsed ==
  {BigZero, BigInt(1), BigSub(ClockBase, DefaultEpoch), Pow2(40),
   BigSub(Pow2(41), BigInt(2)), BigSub(Pow2(41), BigInt(1))}

\* node ids to pack
CodecNodes == {0, 1, 360, 512, 1023}

\* sequences to pack
CodecSeqs == {0, 1, 322, 2048, 4095}

\* the ID of the example of the tests
ExampleId == Dec(<<1,8,8,8,9,4,4,6,7,1,5,7,9,0,7,8,9,7,8>>)

\* 64-bit unsigned integers to decode
RawIds ==
  {BigZero, BigInt(1), ExampleId, BigSub(Pow2(63), BigInt(1)), Pow2(63),
   BigAdd(Pow2(63), ExampleId), BigSub(Pow2(64), BigInt(1))}

\* the caller packs three fields as generate() does
PackRequest(elapsed, node, seq) ==
  /\ codec.kind = "none" \/ codec.out # <<>>
  /\ codec' = [kind |-> "fields", elapsed |-> elapsed, node |-> node,
               seq |-> seq, id |-> <<PackId(elapsed, node, seq)>>, out |-> <<>>]
  /\ UNCHANGED <<clock, instVars, call, issued, burst, regressed, threw, ctor>>

\* the caller picks any ID
RawRequest(id) ==
  /\ codec.kind = "none" \/ codec.out # <<>>
  /\ codec' = [NoCodec EXCEPT !.kind = "raw", !.id = <<id>>]
  /\ UNCHANGED <<clock, instVars, call, issued, burst, regressed, threw, ctor>>

\* decode(id) forgetting the last timestamp of the instance
DecodeResetting(i) ==
  /\ live[i]
  /\ codec.id # <<>>
  /\ codec.out = <<>>
  /\ codec' = [codec EXCEPT !.out = <<decode(epoch[i], codec.id[1])>>]
  /\ lastTimestamp' = [lastTimestamp EXCEPT ![i] = NoTimestamp]
  /\ UNCHANGED <<clock, live, epoch, nodeId, sequence, call, issued, burst,
                 regressed, threw, ctor>>

\* decode(id) on instance i
Decode(i) ==
  /\ live[i]
  /\ codec.id # <<>>
  /\ codec.out = <<>>
  /\ codec' = [codec EXCEPT !.out = <<decode(epoch[i], codec.id[1])>>]
  /\ UNCHANGED <<clock, instVars, call, issued, burst, regressed, threw, ctor>>

\* one instance, of any epoch
InitCodec ==
  \E ea \in CodecEpochArgs :
    InitWith(ClockBase, [i \in Instances |-> i = 1],
             [i \in Instances |->
                IF i = 1 THEN Constructor(ea, <<0>>, [throws |-> TRUE, ifaces |-> <<>>], 0).obj
                ELSE NoObj],
             [i \in Instances |-> 0])

NextCodec ==
  \/ \E e \in CodecElapsed, n \in CodecNodes, s \in CodecSeqs : PackRequest(e, n, s)
  \/ \E id \in RawIds : RawRequest(id)
  \/ \E i \in Instances : Decode(i)

SpecCodec == InitCodec /\ [][NextCodec]_vars

(***************************************************************************)
(* Two instances                                                           *)
(***************************************************************************)
\* epochs of the two instances
PairEpochArgs == {<<>>, <<BigAdd(ClockBase, BigInt(2))>>}

\* node id overrides of the first and of the second instance
PairOverrides1 == {<<1023>>}

PairOverrides2 == {<<>>}

\* numbers of IDs the first instance has already returned when a run starts
PairWarmBursts == {0, 4096}

\* Two instances, the first possibly used before.
InitPair ==
  \E c \in ClockValues, ea1 \in PairEpochArgs, ea2 \in {<<>>},
     ov1 \in PairOverrides1, ov2 \in PairOverrides2,
     n1 \in PairWarmBursts, n2 \in {0} :
    LET r1 == Constructor(ea1, ov1, [throws |-> FALSE, ifaces |-> <<Lo, Eth>>], 0)
        r2 == Constructor(ea2, ov2, [throws |-> FALSE, ifaces |-> <<Lo, Eth>>], 0)
    IN  /\ ~r1.threw /\ ~r2.threw
        /\ CanWarm(r1.obj, n1, c) /\ CanWarm(r2.obj, n2, c)
        /\ InitWith(c, [i \in Instances |-> TRUE],
                    [i \in Instances |-> IF i = 1 THEN r1.obj ELSE r2.obj],
                    [i \in Instances |-> IF i = 1 THEN n1 ELSE n2])

NextPair ==
  \/ Tick
  \/ Regress
  \/ \E i \in Instances :
       /\ Len(issued[1]) + Len(issued[2]) < MaxPairIssued
       /\ GenerateEnter("main", i)
  \/ GenerateSpin("main")
  \/ GenerateStamp("main")

SpecPair == InitPair /\ [][NextPair]_vars

(***************************************************************************)
(* generate() and decode() on one instance                                 *)
(***************************************************************************)
\* an instance returns at most MaxMixedIssued IDs in a run with decode() calls
MaxMixedIssued == 2

\* number of IDs that instance has already returned when a run starts
MixedWarmBursts == {4096}

\* the ID given to decode(): the last one instance i has returned
MixedIds(i) == {issued[i][k] : k \in {Len(issued[i])} \ {0}}

\* One instance with the default epoch and without node id override, which
\* has used up the sequences of the current millisecond.
InitMixed ==
  \E c \in {ClockBase}, ea \in {<<>>}, ov \in {<<>>},
     n \in MixedWarmBursts :
    LET r == Constructor(ea, ov, [throws |-> FALSE, ifaces |-> <<Lo, Eth>>], 0)
    IN  /\ ~r.threw
        /\ CanWarm(r.obj, n, c)
        /\ InitWith(c, [i \in Instances |-> i = 1],
                    [i \in Instances |-> IF i = 1 THEN r.obj ELSE NoObj],
                    [i \in Instances |-> IF i = 1 THEN n ELSE 0])

\* generate() and decode() calls run one at a time, in any order, a decode()
\* call being followed by another generate() call
NextMixed ==
  \/ Tick
  \/ Regress
  \/ \E i \in Instances :
       Len(issued[i]) < MaxMixedIssued /\ GenerateEnter("main", i)
  \/ GenerateSpin("main")
  \/ GenerateStamp("main")
  \/ \E i \in Instances : \E id \in MixedIds(i) :
       /\ call["main"].pc = "idle" /\ live[i]
       /\ Len(issued[i]) < MaxMixedIssued
       /\ RawRequest(id)
  \/ \E i \in Instances : call["main"].pc = "idle" /\ Decode(i)

SpecMixed == InitMixed /\ [][NextMixed]_vars

(***************************************************************************)
(* Two callers of one instance                                             *)
(***************************************************************************)
\* an instance returns at most MaxRaceIssued IDs in a run with two callers
MaxRaceIssued == 2

\* node id overrides of the instance with two callers
RaceOverrides == {<<>>, <<-1>>}

\* numbers of IDs that instance has already returned when a run starts
RaceWarmBursts == {0, 4096}

\* One instance with the default epoch, possibly used before.
InitRace ==
  \E c \in {ClockBase}, ea \in {<<>>}, ov \in RaceOverrides,
     n \in RaceWarmBursts :
    LET r == Constructor(ea, ov, [throws |-> FALSE, ifaces |-> <<Lo, Eth>>], 0)
    IN  /\ ~r.threw
        /\ CanWarm(r.obj, n, c)
        /\ InitWith(c, [i \in Instances |-> i = 1],
                    [i \in Instances |-> IF i = 1 THEN r.obj ELSE NoObj],
                    [i \in Instances |-> IF i = 1 THEN n ELSE 0])

\* Two callers run generate() on one instance with nothing that serializes
\* them: the steps of their calls, each from one clock read to the next,
\* interleave in any order.  The clock never moves backwards.
NextRace ==
  \/ Tick
  \/ \E c \in Callers, i \in Instances :
       /\ Len(issued[i]) + Cardinality({d \in Callers : call[d].pc # "idle"})
            < MaxRaceIssued
       /\ GenerateEnter(c, i)
  \/ \E c \in Callers : GenerateSpin(c)
  \/ \E c \in Callers : GenerateStamp(c)

SpecRace == InitRace /\ [][NextRace]_vars

(***************************************************************************)
(* Properties                                                              *)
(***************************************************************************)
MainCall == call["main"]

\* the last generate() call has returned an ID and no other has started
Returned == MainCall.pc = "idle" /\ MainCall.result = "id"

\* the first and the last ID instance i returned before the run
BurstMin(i) == PackId(burst[i].ts, nodeId[i], 0)

BurstMax(i) == PackId(burst[i].ts, nodeId[i], burst[i].n - 1)

\* id is one of the IDs instance i returned before the run
InBurst(i, id) ==
  burst[i].n > 0 /\ BigLeq(BurstMin(i), id) /\ BigLeq(id, BurstMax(i))

\* the k-th ID of the run of instance i is greater than all IDs before it
GreaterThanEarlier(i, k) ==
  /\ \A j \in 1..(k - 1) : BigLess(issued[i][j], issued[i][k])
  /\ burst[i].n > 0 => BigLess(BurstMax(i), issued[i][k])

\* C1: while the clock has never moved backwards, every ID an instance
\* returned is strictly greater than every ID it returned before.
OrderingLaw ==
  ~regressed =>
    \A i \in Instances : \A k \in 1..Len(issued[i]) : GreaterThanEarlier(i, k)

\* C1, on the instances whose node id is in 0..1023 (holds)
OrderingLawInRange ==
  ~regressed =>
    \A i \in Instances : \A k \in 1..Len(issued[i]) :
      nodeId[i] \in 0..MaxNodeId => GreaterThanEarlier(i, k)

\* C2: the IDs an instance returned are pairwise distinct, whatever the clock
\* did.
Uniqueness ==
  \A i \in Instances : \A k \in 1..Len(issued[i]) :
    /\ ~InBurst(i, issued[i][k])
    /\ \A j \in 1..(k - 1) : issued[i][j] # issued[i][k]

\* C2, on the instances whose node id is in 0..1023 (violated as well, by a
\* clock set back between the two clock reads of one call)
UniquenessInRange ==
  \A i \in Instances : \A k \in 1..Len(issued[i]) :
    nodeId[i] \in 0..MaxNodeId =>
      /\ ~InBurst(i, issued[i][k])
      /\ \A j \in 1..(k - 1) : issued[i][j] # issued[i][k]

\* C3: decoding the ID packed from elapsed, nodeId and sequence gives the
\* timestamp epoch + elapsed and the same nodeId and sequence.
RoundTrip ==
  (codec.kind = "fields" /\ codec.out # <<>>) =>
    codec.out[1] = [timestamp |-> BigAdd(epoch[1], codec.elapsed),
                    nodeId    |-> codec.node,
                    sequence  |-> codec.seq]

\* a round trip of the largest value of each field
RoundTripOfMaxima ==
  /\ codec.kind = "fields" /\ codec.out # <<>>
  /\ codec.elapsed = BigSub(Pow2(41), BigInt(1))
  /\ codec.node = 1023 /\ codec.seq = 4095

\* the timestamp of the example of the tests
ExampleTimestamp == Dec(<<1,7,3,9,1,9,4,4,7,9,2,5,6>>)

\* decode() gives the documented fields of ExampleId under the default epoch
ExampleDecoded ==
  (codec.id = <<ExampleId>> /\ epoch[1] = DefaultEpoch) =>
    codec.out[1] = [timestamp |-> ExampleTimestamp, nodeId |-> 360,
                    sequence |-> 322]

\* C4 as stated: for every ID, decode() gives timestamp = (id >> 22) + epoch,
\* nodeId = (id >> 12) & 0x3FF and sequence = id & 0xFFF.
DecodeShiftsAnyId ==
  (codec.kind = "raw" /\ codec.out # <<>>) =>
    LET id == codec.id[1]
    IN  /\ codec.out[1].timestamp = BigAdd(BigShr(id, 22), epoch[1])
        /\ codec.out[1].nodeId = ToSmall(BigAnd(BigShr(id, 12), BigInt(1023)))
        /\ codec.out[1].sequence = ToSmall(BigAnd(id, BigInt(4095)))
        /\ ExampleDecoded

RECURSIVE Doubled(_, _)
\* x * 2^k, by k additions
Doubled(x, k) ==
  IF k = 0 \/ x = BigZero THEN x ELSE Doubled(BigAdd(x, x), k - 1)

\* C4, amended: the decoded fields are the digits of id below bit 63:
\* id = b * 2^63 + (timestamp - epoch) * 2^22 + nodeId * 2^12 + sequence with
\* b in {0, 1}, timestamp - epoch in 0..2^41-1, nodeId in 0..1023 and sequence
\* in 0..4095.
DecodeFieldsOfAnyId ==
  (codec.kind = "raw" /\ codec.out # <<>>) =>
    LET id == codec.id[1]
        o  == codec.out[1]
        t  == BigSub(o.timestamp, epoch[1])
        low == BigAdd(BigAdd(Doubled(t, 22), Doubled(BigInt(o.nodeId), 12)),
                      BigInt(o.sequence))
    IN  /\ ~IsNeg(t) /\ BigLess(t, Doubled(BigInt(1), 41))
        /\ o.nodeId \in 0..1023
        /\ o.sequence \in 0..4095
        /\ id = low \/ id = BigAdd(Doubled(BigInt(1), 63), low)
        /\ ExampleDecoded

\* an ID with bit 63 set has been decoded
HighBitDecoded ==
  /\ codec.kind = "raw" /\ codec.out # <<>>
  /\ codec.id = <<BigAdd(Pow2(63), ExampleId)>>
  /\ epoch[1] = DefaultEpoch
  /\ codec.out[1].timestamp = ExampleTimestamp

\* C5: the constructor throws, and makes no instance, for every override
\* below 0 or above 1023.
OutOfRangeOverrideRejected ==
  (/\ ctor.called
   /\ ctor.override # <<>>
   /\ ctor.override[1] \notin 0..1023) =>
    (ctor.threw /\ ~live[ctor.inst])

\* C6: for every override in 0..1023 the constructor returns an instance
\* whose getNodeId() is the override.
InRangeOverrideUsed ==
  (/\ ctor.called
   /\ ctor.override # <<>>
   /\ ctor.override[1] \in 0..1023) =>
    (~ctor.threw /\ live[ctor.inst] /\ getNodeId(Obj(ctor.inst)) = ctor.override[1])

\* an override at a boundary has replaced a different derived node id
OverrideBeatsDerivation ==
  /\ ctor.called /\ ~ctor.threw
  /\ ctor.override \in {<<0>>, <<1023>>}
  /\ ctor.computed # ctor.override[1]
  /\ nodeId[ctor.inst] = ctor.override[1]

\* C7: a generate() call that starts while now - epoch < lastTimestamp throws,
\* returns no ID and leaves sequence and lastTimestamp as they were.
RegressionGuard ==
  [][\A i \in Instances :
       (GenerateEnter("main", i) /\ BigLess(BigSub(clock, epoch[i]), lastTimestamp[i]))
         => /\ call'["main"].pc = "idle"
            /\ call'["main"].result = "error"
            /\ sequence' = sequence
            /\ lastTimestamp' = lastTimestamp
            /\ issued' = issued]_vars

\* a call has thrown on an instance that had returned an ID in the run
ThrownAfterIssue ==
  /\ MainCall.pc = "idle" /\ MainCall.result = "error"
  /\ Len(issued[MainCall.inst]) > 0
  /\ BigLess(BigSub(clock, epoch[MainCall.inst]), lastTimestamp[MainCall.inst])

\* C8: a call throws only when it starts with now - epoch < lastTimestamp, and
\* the first call that returns after a call has thrown returns an ID greater
\* than every ID returned before.
RecoveryAfterRegression ==
  /\ MainCall.result = "error" =>
       BigLess(BigSub(MainCall.now, epoch[MainCall.inst]),
               lastTimestamp[MainCall.inst])
  /\ (Returned /\ MainCall.afterThrow) =>
       GreaterThanEarlier(MainCall.inst, Len(issued[MainCall.inst]))

\* C9: two instances whose node ids differ and are in 0..1023 return no
\* common ID.
DisjointAcrossNodes ==
  (nodeId[1] # nodeId[2] /\ nodeId[1] \in 0..1023 /\ nodeId[2] \in 0..1023) =>
    \A k1 \in 1..Len(issued[1]), k2 \in 1..Len(issued[2]) :
      /\ issued[1][k1] # issued[2][k2]
      /\ ~InBurst(2, issued[1][k1])
      /\ ~InBurst(1, issued[2][k2])

\* both instances have returned an ID with the same timestamp and sequence
SameFieldsOnBothNodes ==
  /\ nodeId[1] # nodeId[2]
  /\ Len(issued[1]) > 0 /\ Len(issued[2]) > 0
  /\ epoch[1] = epoch[2]
  /\ BigShr(issued[1][1], 22) = BigShr(issued[2][1], 22)
  /\ BigAnd(issued[1][1], BigInt(4095)) = BigAnd(issued[2][1], BigInt(4095))

\* C10: decoding the ID a call returned gives the node id, the sequence and
\* (less the epoch) the lastTimestamp of the instance right after the call.
DecodeRecoversState ==
  Returned =>
    LET i == MainCall.inst
        d == decode(epoch[i], MainCall.ret)
    IN  /\ d.nodeId = getNodeId(Obj(i))
        /\ d.sequence = sequence[i]
        /\ BigSub(d.timestamp, epoch[i]) = lastTimestamp[i]

\* C11: while the clock has never moved backwards, the timestamp decoded from
\* the ID a call returns is at least the clock value the call read when it
\* started and at most the clock value at its return.
TimestampBracketing ==
  [][(GenerateStamp("main") /\ ~regressed) =>
       LET i == MainCall.inst
           d == decode(epoch[i], call'["main"].ret)
       IN  /\ BigLeq(MainCall.now, d.timestamp)
           /\ BigLeq(d.timestamp, clock')]_vars

\* C11, on the instances whose node id is in 0..1023 and whose clock is 0 to
\* 2^41 - 1 milliseconds past the epoch (holds)
TimestampBracketingInRange ==
  [][(/\ GenerateStamp("main")
      /\ ~regressed
      /\ nodeId[MainCall.inst] \in 0..MaxNodeId
      /\ ~IsNeg(Elapsed(MainCall.inst, clock))
      /\ BigLess(Elapsed(MainCall.inst, clock), Pow2(41))) =>
       LET i == MainCall.inst
           d == decode(epoch[i], call'["main"].ret)
       IN  /\ BigLeq(MainCall.now, d.timestamp)
           /\ BigLeq(d.timestamp, clock')]_vars

\* the timestamp field and the sequence field of an ID
TimestampField(id) == BigShr(id, TimestampShift)

SequenceField(id) == ToSmall(BigAnd(id, BigInt(SeqMask)))

\* the number of IDs instance i returned before the k-th ID of the run with
\* the timestamp field of that ID
EarlierInMillisecond(i, k) ==
  Cardinality({j \in 1..(k - 1) :
                 TimestampField(issued[i][j]) = TimestampField(issued[i][k])})
  + (IF burst[i].n > 0
        /\ TimestampField(BurstMin(i)) = TimestampField(issued[i][k])
     THEN burst[i].n ELSE 0)

\* C12: while the clock has never moved backwards, the sequence field of
\* every returned ID is the number of IDs the instance returned before with
\* the same timestamp field (so these IDs carry 0, 1, ..., N-1 in issue
\* order, and N is at most 4096).
SequencesFromZero ==
  ~regressed =>
    \A i \in Instances : \A k \in 1..Len(issued[i]) :
      /\ SequenceField(issued[i][k]) = EarlierInMillisecond(i, k)
      /\ EarlierInMillisecond(i, k) < 4096

\* the epoch of instance i is not after the clock window
EpochPassed(i) == ~IsNeg(Elapsed(i, ClockBase))

\* C12, on the instances whose node id is in 0..1023 and whose epoch is not
\* in the future (violated as well, by a clock that advances between the two
\* clock reads of one call)
SequencesFromZeroInRange ==
  ~regressed =>
    \A i \in Instances : \A k \in 1..Len(issued[i]) :
      (nodeId[i] \in 0..MaxNodeId /\ EpochPassed(i)) =>
        SequenceField(issued[i][k]) = EarlierInMillisecond(i, k)

\* C13: a generate() call that starts while now - epoch > lastTimestamp sets
\* the sequence to 0 and goes on to line 102; when it returns, the sequence of
\* the instance and the sequence field of the returned ID are 0.
SequenceResetOnNewMillisecond ==
  [][/\ \A i \in Instances :
          (GenerateEnter("main", i) /\ BigLess(lastTimestamp[i], Elapsed(i, clock)))
            => /\ sequence'[i] = 0
               /\ call'["main"].pc = "stamp"
               /\ call'["main"].branch = "reset"
     /\ (GenerateStamp("main") /\ MainCall.branch = "reset")
          => /\ sequence'[MainCall.inst] = 0
             /\ SequenceField(call'["main"].ret) = 0
             /\ call'["main"].result = "id"]_vars

\* a call that started in a later millisecond than the 4095 or 4096 IDs
\* before it has returned an ID with sequence 0
ResetAfterBurst ==
  /\ Returned /\ MainCall.branch = "reset"
  /\ burst[MainCall.inst].n > 0
  /\ Len(issued[MainCall.inst]) = 1
  /\ sequence[MainCall.inst] = 0
  /\ SequenceField(MainCall.ret) = 0

\* C14: without an override the constructor returns an instance whose node id
\* is in 0..1023, whatever the enumeration of the addresses does.
NoOverrideNeverFails ==
  (ctor.called /\ ctor.override = <<>>) =>
    /\ ~ctor.threw
    /\ live[ctor.inst]
    /\ getNodeId(Obj(ctor.inst)) \in 0..1023
    /\ getNodeId(Obj(ctor.inst)) = ctor.computed

\* an instance built without an override has the node id 0, which no address
\* of the environments gives: the random fallback has been used
RandomFallbackUsed ==
  /\ ctor.called /\ ctor.override = <<>> /\ ~ctor.threw
  /\ nodeId[ctor.inst] = 0

\* C15: every ID returned by an instance whose node id is in 0..1023 is
\* strictly positive and below 2^64, and its timestamp field is an elapsed
\* time in 0 .. 2^41 - 1.
PositiveSixtyFourBitIds ==
  \A i \in Instances : \A k \in 1..Len(issued[i]) :
    nodeId[i] \in 0..1023 =>
      /\ BigLess(BigZero, issued[i][k])
      /\ BigLess(issued[i][k], Pow2(64))
      /\ ~IsNeg(TimestampField(issued[i][k]))
      /\ BigLess(TimestampField(issued[i][k]), Pow2(41))

\* C15, on the instances whose clock is 1 to 2^41 - 1 milliseconds past the
\* epoch when the ID is stamped (holds)
PositiveIdsInRange ==
  \A i \in Instances : \A k \in 1..Len(issued[i]) :
    (/\ nodeId[i] \in 0..1023
     /\ BigLess(BigZero, TimestampField(issued[i][k]))
     /\ BigLess(TimestampField(issued[i][k]), Pow2(41))) =>
      /\ BigLess(BigZero, issued[i][k])
      /\ BigLess(issued[i][k], Pow2(63))

\* C16: whatever the clock does, a generate() call that returns leaves
\* lastTimestamp at least as large as it was before the call.
LastTimestampNeverDecreases ==
  [][GenerateStamp("main") =>
       BigLeq(lastTimestamp[MainCall.inst], lastTimestamp'[MainCall.inst])]_vars

\* C16, while the clock has never moved backwards (holds)
LastTimestampGrowsWithClock ==
  [][(GenerateStamp("main") /\ ~regressed) =>
       BigLeq(lastTimestamp[MainCall.inst], lastTimestamp'[MainCall.inst])]_vars

\* C17: in every state (new instance, call in progress, overflow wait, after
\* a return or a throw) the sequence of every instance is in 0..4095, and the
\* sequence field of a returned ID is the sequence of the instance at the
\* return.
SequenceInRange ==
  /\ \A i \in Instances : sequence[i] \in 0..4095
  /\ \A i \in Instances : \A k \in 1..Len(issued[i]) :
       SequenceField(issued[i][k]) \in 0..4095
  /\ Returned => SequenceField(MainCall.ret) = sequence[MainCall.inst]

\* a call waits at line 96 after the sequence has wrapped from 4095 to 0
WaitingAfterWrap ==
  /\ MainCall.pc = "spin"
  /\ sequence[MainCall.inst] = 0
  /\ burst[MainCall.inst].n = 4096
  /\ Len(issued[MainCall.inst]) = 0

\* what C18 says of one step of a call on instance i that hits the overflow
OverflowWaitStep(i) ==
  /\ (GenerateEnter("main", i) /\ SameMillisecond(i, clock) /\ sequence[i] = 4095)
       => /\ sequence'[i] = 0
          /\ call'["main"].pc = "spin"
          /\ call'["main"].branch = "overflow"
  /\ (MainCall.inst = i /\ MainCall.pc = "spin" /\ call'["main"].pc # "spin")
       => /\ call'["main"].pc = "stamp"
          /\ BigLess(lastTimestamp[i], Elapsed(i, clock))
  /\ (MainCall.inst = i /\ GenerateStamp("main") /\ MainCall.branch = "overflow")
       => /\ SequenceField(call'["main"].ret) = 0
          /\ BigLess(lastTimestamp[i], TimestampField(call'["main"].ret))

\* C18: a call made in the millisecond of the previous ID whose increment
\* wraps the sequence from 4095 to 0 waits at line 96, leaves the wait only
\* when it sees the clock strictly past lastTimestamp, and returns an ID with
\* sequence 0 and a timestamp field strictly greater than the lastTimestamp
\* it started with.
OverflowWait ==
  [][\A i \in Instances : OverflowWaitStep(i)]_vars

\* C18, on the instances whose node id is in 0..1023 (violated as well, by a
\* clock set back between the end of the wait and the clock read of line 102)
OverflowWaitInRange ==
  [][\A i \in Instances : nodeId[i] \in 0..MaxNodeId => OverflowWaitStep(i)]_vars

\* C18, on the instances whose node id is in 0..1023 and while the clock has
\* never moved backwards (holds)
OverflowWaitForwardClock ==
  [][\A i \in Instances :
       (nodeId[i] \in 0..MaxNodeId /\ ~regressed) => OverflowWaitStep(i)]_vars

\* C19: a call that does not wait at line 96 stores in lastTimestamp, and
\* packs into the ID it returns, the elapsed time now - epoch of the clock
\* value it read at line 83.
OneClockObservation ==
  [][(GenerateStamp("main") /\ MainCall.branch # "overflow") =>
       LET i == MainCall.inst
           elapsed == Elapsed(i, MainCall.now)
       IN  /\ lastTimestamp'[i] = elapsed
           /\ call'["main"].ret = PackId(elapsed, nodeId[i], sequence[i])]_vars

\* the clock is strictly past the lastTimestamp of the instance of the call
ClockPast ==
  BigLess(lastTimestamp[MainCall.inst], Elapsed(MainCall.inst, clock))

\* C20: only a call whose increment wrapped the sequence waits at line 96; a
\* call that is past the wait, or never waited, returns whatever the clock
\* does; and a waiting call returns unless the clock is again and again not
\* past lastTimestamp (it returns if the clock advances past lastTimestamp for
\* good).
Termination ==
  /\ [](MainCall.pc = "spin" => MainCall.branch = "overflow")
  /\ [](MainCall.pc = "stamp" => <>(MainCall.pc = "idle"))
  /\ [](MainCall.pc = "spin" => (<>(MainCall.pc = "idle") \/ []<>~ClockPast))

\* a call that waited at line 96 has returned
ReturnedAfterWait ==
  /\ Returned /\ MainCall.branch = "overflow"
  /\ sequence[MainCall.inst] = 0

\* C21: a call that starts in the millisecond of lastTimestamp with a sequence
\* s below 4095 sets the sequence to s + 1 and goes on to the second clock
\* read without entering the wait of line 96; the ID it returns carries that
\* sequence; and no step changes the sequence of an instance other than to
\* (s + 1) mod 4096 or to 0.
SameMillisecondIncrement ==
  [][
      /\ \A i \in Instances :
          (/\ GenerateEnter("main", i)
           /\ SameMillisecond(i, clock)
           /\ sequence[i] < SeqMask)
          => /\ sequence'[i] = sequence[i] + 1
             /\ call'["main"].pc = "stamp"
             /\ call'["main"].branch = "increment"
             /\ call'["main"].result = "none"
      /\ (GenerateStamp("main") /\ MainCall.branch = "increment")
          => /\ SequenceField(call'["main"].ret) = sequence[MainCall.inst]
             /\ call'["main"].result = "id"
             /\ sequence' = sequence
      /\ \A i \in Instances :
          sequence'[i] \in {sequence[i], (sequence[i] + 1) % (SeqMask + 1), 0}
    ]_vars

\* the 4096th ID of a millisecond has been returned without a wait, with
\* sequence 4095
IncrementedToMaximum ==
  /\ Returned /\ MainCall.branch = "increment"
  /\ burst[MainCall.inst].n = 4095
  /\ Len(issued[MainCall.inst]) = 1
  /\ sequence[MainCall.inst] = 4095
  /\ SequenceField(MainCall.ret) = 4095

\* the hardware addresses other than 00:00:00:00:00:00 that the interfaces
\* ifaces[k], ifaces[k + 1], ... expose, in the order of enumeration
RECURSIVE UsableFrom(_, _)
UsableFrom(ifaces, k) ==
  IF k > Len(ifaces) THEN <<>>
  ELSE (IF ifaces[k].defined
        THEN SelectSeq(ifaces[k].addrs, LAMBDA a : a # ZeroMac)
        ELSE <<>>) \o UsableFrom(ifaces, k + 1)

UsableAddresses(env) == IF env.throws THEN <<>> ELSE UsableFrom(env.ifaces, 1)

\* the 48-bit value of the address mac, modulo 1024: its last ten bits
LastTenBits(mac) == (mac[5] % 4) * 256 + mac[6]

\* what C22 says of a constructor call without override in environment env
\* with random draw rnd that made instance i
DerivedFromFirstUsable(i, env, rnd) ==
  IF UsableAddresses(env) # <<>>
  THEN nodeId[i] = LastTenBits(UsableAddresses(env)[1])
  ELSE nodeId[i] = rnd

UniformInterfaces(env) ==
  \A k \in 1..Len(env.ifaces) :
    env.ifaces[k].defined =>
      /\ Len(env.ifaces[k].addrs) > 0
      /\ \A a \in 1..Len(env.ifaces[k].addrs) :
           env.ifaces[k].addrs[a] = env.ifaces[k].addrs[1]

\* C22 for the environments with uniform interfaces
NodeIdDerivationUniform ==
  (ctor.called /\ ~ctor.threw /\ ctor.override = <<>>
   /\ UniformInterfaces(ctor.env)) =>
    DerivedFromFirstUsable(ctor.inst, ctor.env, ctor.rnd)

\* C23: no step of a generate() call (one that returns, one that throws, one
\* that waits at line 96) and no decode() call changes what getNodeId()
\* returns or the epoch of an instance.
NodeIdAndEpochFixed ==
  [][\A i \in Instances :
       /\ getNodeId(Obj(i))' = getNodeId(Obj(i))
       /\ epoch'[i] = epoch[i]]_vars

\* an instance has waited at line 96 and returned an ID, has decoded it, has
\* thrown, and has returned a second ID
UsedInEveryWay ==
  /\ Returned /\ MainCall.afterThrow
  /\ burst[MainCall.inst].n = 4096
  /\ Len(issued[MainCall.inst]) = 2
  /\ codec.out # <<>>
  /\ codec.id[1] = issued[MainCall.inst][1]

\* C24: a decode() call changes neither sequence, lastTimestamp, nodeId and
\* epoch nor anything else a generate() call reads or writes (the clock, the
\* call in progress, the IDs returned so far); its result is a function of the
\* ID and the epoch alone, whatever sequence, lastTimestamp, nodeId and the
\* clock are; and generate() takes nothing from decode(): its steps leave the
\* decoded fields alone and the ID it returns is made of the clock, the node
\* id and the sequence only.
DecodeIsPure ==
  [][
      /\ codec' # codec
          => UNCHANGED <<sequence, lastTimestamp, nodeId, epoch, live, clock,
                         call, issued, threw>>
      /\ \A i \in Instances :
          (live[i] /\ codec'.out # codec.out /\ codec'.out # <<>>)
          => codec'.out[1] = decode(epoch[i], codec.id[1])
      /\ \A i \in Instances :
          issued'[i] # issued[i]
          => issued'[i] =
               Append(issued[i],
                      PackId(Elapsed(i, clock), nodeId[i], sequence[i]))
    ]_vars

\* decode() ran between two generate() calls of one millisecond, and the
\* second ID follows the first
DecodedBetweenCalls ==
  /\ Returned /\ MainCall.branch = "increment"
  /\ Len(issued[MainCall.inst]) = 2
  /\ codec.out # <<>>
  /\ codec.id[1] = issued[MainCall.inst][1]
  /\ codec.out[1].sequence = 0
  /\ issued[MainCall.inst][2] = BigAdd(issued[MainCall.inst][1], BigInt(1))

\* some call of the run started while another was in progress
Raced == \E c \in Callers : call[c].raced

\* an ID of the run of instance i is equal to, or smaller than, one returned
\* before it
OutOfOrder(i) == \E k \in 1..Len(issued[i]) : ~GreaterThanEarlier(i, k)

\* C25: two generate() calls that interleave can return the same ID, or the
\* later one a smaller ID; while every call runs to completion before the
\* next starts and the clock does not move backwards, every ID returned is
\* greater than those returned before it.
SerializedCallsOrdered ==
  (~Raced /\ ~regressed) => \A i \in Instances : ~OutOfOrder(i)

\* C25 on the instances whose node id is in 0..1023 (holds)
SerializedCallsOrderedInRange ==
  (~Raced /\ ~regressed) =>
    \A i \in Instances : nodeId[i] \in 0..MaxNodeId => ~OutOfOrder(i)

\* no two interleaved calls on an instance of node id in 0..1023 have returned
\* the same ID (violated: the interleaving of C25 is reachable)
InterleavedCallsDistinct ==
  \A i \in Instances :
    (Raced /\ nodeId[i] \in 0..MaxNodeId /\ Len(issued[i]) = 2) =>
      issued[i][1] # issued[i][2]

\* C26: on an instance that has returned no ID before, the first generate()
\* call does not throw the clock-regression error and the ID it returns has
\* sequence 0, whatever the epoch and the clock.
SentinelNeverCollides ==
  \A i \in Instances :
    (live[i] /\ burst[i].n = 0) =>
      /\ Len(issued[i]) = 0 => ~threw[i]
      /\ Len(issued[i]) >= 1 => SequenceField(issued[i][1]) = 0

\* C26 for the epochs that are not after the clock (holds)
SentinelNeverCollidesPastEpoch ==
  \A i \in Instances :
    (live[i] /\ burst[i].n = 0 /\ EpochPassed(i)) =>
      /\ Len(issued[i]) = 0 => ~threw[i]
      /\ Len(issued[i]) >= 1 => SequenceField(issued[i][1]) = 0

\* the first ID a new instance returns has sequence 0 (violated, by an epoch
\* one millisecond after the clock)
SentinelOneBeforeEpoch ==
  \A i \in Instances :
    (live[i] /\ burst[i].n = 0 /\ Len(issued[i]) >= 1) =>
      SequenceField(issued[i][1]) = 0

====
